---- MODULE Spec2Model ----
(***************************************************************************)
(* A model of two pieces of the Noir compiler's evaluator:                 *)
(*                                                                         *)
(*   ssa/opt/fill_internal_slices.rs   the pass that pads nested slices    *)
(*   brillig/brillig_gen/brillig_directive.rs   the invert and quotient    *)
(*                                      directives of the Brillig VM       *)
(*                                                                         *)
(* The pass is modelled block by block: Context::process_block first       *)
(* tracks slice sizes over the instructions of the block (one action per   *)
(* match arm), then computes the nested slice max, then replays the        *)
(* instructions (one action per match arm) and maps the terminator.        *)
(***************************************************************************)
EXTENDS Integers, Sequences, FiniteSets, TLC

VARIABLES
    dfg,                  \* the value store: ValueId -> Value (ids are 1..Len(dfg))
    instructions,         \* the instructions taken from the block
    terminator,           \* the value ids the block terminator references
    pc,                   \* position of process_block
    i,                    \* index of the instruction the current loop is at
    slice_values,         \* Vec<ValueId>
    slice_sizes,          \* HashMap<ValueId, (usize, Vec<ValueId>)>
    mapped_slice_values,  \* BTreeMap<ValueId, ValueId>
    nested_slice_max,     \* usize
    values,               \* FunctionInserter::values
    emitted,              \* the instructions pushed into the block
    new_terminator,       \* the terminator after map_terminator_in_place
    history,              \* history[k]: slice_sizes before instruction k was tracked
    rewrites,             \* one record per Read/Write the rewrite replaced
    vm                    \* the register machine running a directive

passVars == <<dfg, instructions, terminator, pc, i, slice_values, slice_sizes,
              mapped_slice_values, nested_slice_max, values, emitted,
              new_terminator, history, rewrites>>
vars == <<dfg, instructions, terminator, pc, i, slice_values, slice_sizes,
          mapped_slice_values, nested_slice_max, values, emitted,
          new_terminator, history, rewrites, vm>>

----------------------------------------------------------------------------
(* Bounds of the model *)

\* longest block drawn from the full instruction alphabet
MaxInstrs == 2
\* longest run of slice intrinsic calls appended to a tracking Read
MaxChain == 3

----------------------------------------------------------------------------
(* Finite maps *)

EmptyMap == [x \in {} |-> 0]
Has(m, k) == k \in DOMAIN m
Put(m, k, v) == [x \in (DOMAIN m) \cup {k} |-> IF x = k THEN v ELSE m[x]]
Range(s) == {s[k] : k \in DOMAIN s}
Max2(a, b) == IF a > b THEN a ELSE b

----------------------------------------------------------------------------
(* Types: Numeric, Array(element types, len) and Slice(element types).     *)
(* A type is named by a string; the operators below give its structure.    *)

TypeKind(t) ==
    CASE t \in {"Field", "U8"} -> "Numeric"
      [] t \in {"ArrF2", "ArrSF1"} -> "Array"
      [] OTHER -> "Slice"

ElementTypes(t) ==
    CASE t = "ArrF2" -> <<"Field">>
      [] t = "ArrSF1" -> <<"SliceF">>
      [] t = "SliceF" -> <<"Field">>
      [] t = "SliceU8" -> <<"U8">>
      [] t = "SliceSU8" -> <<"SliceU8">>
      [] t = "SliceSF" -> <<"SliceF">>
      [] t = "SliceSSF" -> <<"SliceSF">>
      [] t = "SliceTup" -> <<"Field", "ArrF2">>
      [] t = "SliceSTup" -> <<"SliceTup">>
      [] OTHER -> <<>>

ArrayLen(t) ==
    CASE t = "ArrF2" -> 2
      [] t = "ArrSF1" -> 1
      [] OTHER -> 0

RECURSIVE contains_slice_element(_)
contains_slice_element(t) ==
    CASE TypeKind(t) = "Slice" -> TRUE
      [] TypeKind(t) = "Array" ->
            \E k \in DOMAIN ElementTypes(t) : contains_slice_element(ElementTypes(t)[k])
      [] OTHER -> FALSE

\* Type::element_size
element_size(t) == Len(ElementTypes(t))

----------------------------------------------------------------------------
(* Values of the store *)

NumericConstant(n, t) == [kind |-> "NumericConstant", typ |-> t, array |-> <<>>, num |-> n]
ArrayValue(t, elems) == [kind |-> "Array", typ |-> t, array |-> elems, num |-> 0]
InstructionResult(t) == [kind |-> "Instruction", typ |-> t, array |-> <<>>, num |-> 0]

type_of_value(d, id) == d[id].typ

\* DataFlowGraph::make_array: a fresh value
make_array(d, elems, t) == [dfg |-> Append(d, ArrayValue(t, elems)), id |-> Len(d) + 1]

\* DataFlowGraph::make_constant: constants are cached by (value, type)
make_constant(d, n, t) ==
    IF \E k \in DOMAIN d : d[k] = NumericConstant(n, t)
    THEN [dfg |-> d, id |-> CHOOSE k \in DOMAIN d : d[k] = NumericConstant(n, t)]
    ELSE [dfg |-> Append(d, NumericConstant(n, t)), id |-> Len(d) + 1]

----------------------------------------------------------------------------
(* Context::follow_mapped_slice_values: the last id of the chain from id  *)

\* a variant that follows one entry of the map instead of the whole lineage
follow_one_entry(array_id, mapped) ==
    IF Has(mapped, array_id) THEN mapped[array_id] ELSE array_id

RECURSIVE follow_mapped_slice_values(_, _)
follow_mapped_slice_values(array_id, mapped) ==
    IF Has(mapped, array_id)
    THEN follow_mapped_slice_values(mapped[array_id], mapped)
    ELSE array_id

----------------------------------------------------------------------------
(* Context::compute_slice_sizes.  Results are [ok, sizes]; ok = FALSE is   *)
(* the panic of an expect().                                               *)

SizeRecord(len, inner) == [size |-> len, inner |-> inner]

\* lines 396-403: the largest size among the inner slices
RECURSIVE InnerMax(_, _, _, _)
InnerMax(inner, k, sizes, max_size) ==
    IF k > Len(inner) THEN max_size
    ELSE InnerMax(inner, k + 1, sizes, Max2(max_size, sizes[inner[k]].size))

\* lines 404-410: raise every inner slice to the largest size
\* a variant that leaves the siblings' records as they are
RaiseInner_skipped(inner, sizes, max_size) == sizes

RaiseInner(inner, sizes, max_size) ==
    [x \in DOMAIN sizes |->
        IF x \in Range(inner) /\ sizes[x].size < max_size
        THEN SizeRecord(max_size, sizes[x].inner)
        ELSE sizes[x]]

RECURSIVE compute_slice_sizes(_, _, _)
RECURSIVE ComputeElements(_, _, _, _, _)

\* lines 388-394: the loop over the elements of the array
ComputeElements(d, array, k, inner, sizes) ==
    IF k > Len(array) THEN [ok |-> TRUE, inner |-> inner, sizes |-> sizes]
    ELSE IF TypeKind(type_of_value(d, array[k])) = "Slice"
         THEN LET r == compute_slice_sizes(d, array[k], sizes)
              IN  IF r.ok
                  THEN ComputeElements(d, array, k + 1, Append(inner, array[k]), r.sizes)
                  ELSE [ok |-> FALSE, inner |-> inner, sizes |-> sizes]
         ELSE ComputeElements(d, array, k + 1, inner, sizes)

compute_slice_sizes(d, array_id, sizes) ==
    IF d[array_id].kind = "Array" /\ TypeKind(d[array_id].typ) = "Slice"
    THEN LET array == d[array_id].array
             len == Len(array) \div element_size(d[array_id].typ)
             e == ComputeElements(d, array, 1, <<>>, sizes)
         IN  IF ~e.ok \/ \E v \in Range(e.inner) : ~Has(e.sizes, v)
             THEN [ok |-> FALSE, sizes |-> sizes]
             ELSE LET max_size == InnerMax(e.inner, 1, e.sizes, 0)
                  IN  [ok |-> TRUE,
                       sizes |-> Put(RaiseInner(e.inner, e.sizes, max_size),
                                     array_id, SizeRecord(len, e.inner))]
    ELSE [ok |-> TRUE, sizes |-> sizes]

----------------------------------------------------------------------------
(* Context::find_max_nested_depth and Context::compute_inner_max_size.     *)
(* Results carry ok = FALSE for the panic of a missing size record.        *)

\* Option<usize>: some = FALSE is None
RECURSIVE FindMaxInner_flat(_, _, _, _)
RECURSIVE InnerSizeMax(_, _, _, _)
InnerSizeMax(inner, k, sizes, max_size) ==
    IF k > Len(inner) THEN max_size
    ELSE LET inner_size == sizes[inner[k]].size
         IN  InnerSizeMax(inner, k + 1, sizes,
                 IF max_size.some
                 THEN (IF inner_size > max_size.val
                       THEN [some |-> TRUE, val |-> inner_size] ELSE max_size)
                 ELSE [some |-> TRUE, val |-> inner_size])

compute_inner_max_size(current_array_id, sizes) ==
    IF ~Has(sizes, current_array_id)
       \/ \E v \in Range(sizes[current_array_id].inner) : ~Has(sizes, v)
    THEN [ok |-> FALSE, some |-> FALSE, val |-> 0]
    ELSE LET m == InnerSizeMax(sizes[current_array_id].inner, 1, sizes,
                               [some |-> FALSE, val |-> 0])
         IN  [ok |-> TRUE, some |-> m.some, val |-> m.val]

RECURSIVE find_max_nested_depth(_, _)
RECURSIVE FindMaxInner(_, _, _, _)

\* a variant of the loop that does not descend into the inner slices
FindMaxInner_flat(inner, k, sizes, max) ==
    IF k > Len(inner) THEN [ok |-> TRUE, max |-> max]
    ELSE LET inner_max == compute_inner_max_size(inner[k], sizes)
         IN  IF ~inner_max.ok THEN [ok |-> FALSE, max |-> 0]
             ELSE FindMaxInner_flat(inner, k + 1, sizes,
                                    IF inner_max.some /\ inner_max.val > max
                                    THEN inner_max.val ELSE max)

\* lines 425-435: the loop over the inner slices
FindMaxInner(inner, k, sizes, max) ==
    IF k > Len(inner) THEN [ok |-> TRUE, max |-> max]
    ELSE LET inner_max == compute_inner_max_size(inner[k], sizes)
         IN  IF ~inner_max.ok THEN [ok |-> FALSE, max |-> 0]
             ELSE LET m1 == IF inner_max.some /\ inner_max.val > max
                            THEN inner_max.val ELSE max
                      inner_nested_max == find_max_nested_depth(inner[k], sizes)
                  IN  IF ~inner_nested_max.ok THEN [ok |-> FALSE, max |-> 0]
                      ELSE FindMaxInner(inner, k + 1, sizes,
                                        Max2(m1, inner_nested_max.max))

find_max_nested_depth(array_id, sizes) ==
    IF ~Has(sizes, array_id) THEN [ok |-> FALSE, max |-> 0]
    ELSE FindMaxInner(sizes[array_id].inner, 1, sizes, sizes[array_id].size)

----------------------------------------------------------------------------
(* FunctionInserter: resolve follows the values map; an instruction is     *)
(* pushed with its operands resolved and keeps its results.                *)

RECURSIVE resolve(_, _)
resolve(vals, id) ==
    IF Has(vals, id) THEN resolve(vals, vals[id]) ELSE id

----------------------------------------------------------------------------
(* Context::attach_slice_dummies.  value = 0 is None.  The result is       *)
(* [ok, dfg, id]: the store with the values made, and the id returned;     *)
(* ok = FALSE is the panic "Expected an array value".                      *)

\* the type of the zero constant made for a numeric slot (line 305)
DummyNumericType(t) == "Field"

RECURSIVE attach_slice_dummies(_, _, _, _, _, _)
RECURSIVE AttachSlots(_, _, _, _, _, _, _, _)

\* the loops over the flattened slots k = i * element_types.len() + element_index
\* (lines 313-317, 331-352, 361-365); source = <<>> when there is none
AttachSlots(d, vals, element_types, source, k, total, nested_max, slice) ==
    IF k >= total THEN [ok |-> TRUE, dfg |-> d, elems |-> slice]
    ELSE LET element_type == element_types[(k % Len(element_types)) + 1]
             r == IF k < Len(source)
                  THEN attach_slice_dummies(d, vals, element_type, source[k + 1],
                                            nested_max, FALSE)
                  ELSE attach_slice_dummies(d, vals, element_type, 0,
                                            nested_max, FALSE)
         IN  IF ~r.ok THEN [ok |-> FALSE, dfg |-> d, elems |-> slice]
             ELSE AttachSlots(r.dfg, vals, element_types, source, k + 1, total,
                              nested_max, Append(slice, r.id))

\* lines 321-368: the width of the slice made
\* a variant that gives the outermost slice the bound as well
SliceWidth_bound_everywhere(array, element_types, nested_max, is_parent_slice) ==
    nested_max

SliceWidth(array, element_types, nested_max, is_parent_slice) ==
    IF is_parent_slice THEN Len(array) \div Len(element_types) ELSE nested_max

attach_slice_dummies(d, vals, typ, value, nested_max, is_parent_slice) ==
    CASE TypeKind(typ) = "Numeric" ->
            IF value # 0
            THEN [ok |-> TRUE, dfg |-> d, id |-> resolve(vals, value)]
            ELSE LET c == make_constant(d, 0, DummyNumericType(typ))
                 IN  [ok |-> TRUE, dfg |-> c.dfg, id |-> c.id]
      [] TypeKind(typ) = "Array" ->
            IF value # 0
            THEN [ok |-> TRUE, dfg |-> d, id |-> resolve(vals, value)]
            ELSE LET s == AttachSlots(d, vals, ElementTypes(typ), <<>>, 0,
                                      ArrayLen(typ) * Len(ElementTypes(typ)),
                                      nested_max, <<>>)
                     a == make_array(s.dfg, s.elems, typ)
                 IN  [ok |-> s.ok, dfg |-> a.dfg, id |-> a.id]
      [] OTHER ->
            IF value # 0
            THEN IF d[value].kind # "Array"
                 THEN [ok |-> FALSE, dfg |-> d, id |-> 0]
                 ELSE LET array == d[value].array
                          max_size == SliceWidth(array, ElementTypes(typ),
                                                 nested_max, is_parent_slice)
                          s == AttachSlots(d, vals, ElementTypes(typ), array, 0,
                                           max_size * Len(ElementTypes(typ)),
                                           nested_max, <<>>)
                          a == make_array(s.dfg, s.elems, typ)
                      IN  [ok |-> s.ok, dfg |-> a.dfg, id |-> a.id]
            ELSE LET s == AttachSlots(d, vals, ElementTypes(typ), <<>>, 0,
                                      nested_max * Len(ElementTypes(typ)),
                                      nested_max, <<>>)
                     a == make_array(s.dfg, s.elems, typ)
                 IN  [ok |-> s.ok, dfg |-> a.dfg, id |-> a.id]

----------------------------------------------------------------------------
(* Instructions.  Unused operands are 0, unused lists are empty.  A Call   *)
(* names its function: one of the six slice intrinsics, another intrinsic  *)
(* ("ToBits") or an ordinary function ("Function").                        *)

Instr(op, func, array, index, value, arguments) ==
    [op |-> op, func |-> func, array |-> array, index |-> index, value |-> value,
     arguments |-> arguments, results |-> <<>>]

ArrayGet(array, index) == Instr("ArrayGet", "", array, index, 0, <<>>)
ArraySet(array, index, value) == Instr("ArraySet", "", array, index, value, <<>>)
Call(func, arguments) == Instr("Call", func, 0, 0, 0, arguments)
Binary(lhs, rhs) == Instr("Binary", "", 0, 0, 0, <<lhs, rhs>>)

Growing == {"SlicePushBack", "SlicePushFront", "SliceInsert"}
Shrinking == {"SlicePopBack", "SlicePopFront", "SliceRemove"}
SliceIntrinsics == Growing \cup Shrinking

\* lines 138-146, zero-based as in the source
argument_index(func) == 1
result_index(func) == IF func = "SlicePopFront" THEN 2 ELSE 1

\* the slice a slice intrinsic call is applied to, and the result that carries on
SliceContents(ins) == ins.arguments[argument_index(ins.func) + 1]
DesignatedResult(ins) == ins.results[result_index(ins.func) + 1]

\* FunctionInserter::map_instruction: every operand resolved
map_instruction(vals, ins) ==
    [ins EXCEPT !.array = IF @ = 0 THEN 0 ELSE resolve(vals, @),
                !.index = IF @ = 0 THEN 0 ELSE resolve(vals, @),
                !.value = IF @ = 0 THEN 0 ELSE resolve(vals, @),
                !.arguments = [k \in DOMAIN @ |-> resolve(vals, @[k])]]

----------------------------------------------------------------------------
(* The tracking loop of process_block (lines 65-185), one operator per     *)
(* match arm.  Each yields [ok, slice_values, slice_sizes, mapped]; ok =   *)
(* FALSE is a panic.                                                       *)

Tracked(ok, sv, sizes, mapped) ==
    [ok |-> ok, slice_values |-> sv, slice_sizes |-> sizes, mapped |-> mapped]

\* lines 68-73 and 95-100: a materialized array whose type contains a slice
MarkSliceValue(d, array, sv, sizes) ==
    IF d[array].kind = "Array" /\ contains_slice_element(type_of_value(d, array))
    THEN LET c == compute_slice_sizes(d, array, sizes)
         IN  [ok |-> c.ok, slice_values |-> Append(sv, array), sizes |-> c.sizes]
    ELSE [ok |-> TRUE, slice_values |-> sv, sizes |-> sizes]

\* lines 83-90: the result takes the record of each inner slice in turn
RECURSIVE CopyInnerSizes(_, _, _, _)
CopyInnerSizes(inner, k, sizes, result) ==
    IF k > Len(inner) THEN [ok |-> TRUE, sizes |-> sizes]
    ELSE IF ~Has(sizes, inner[k]) THEN [ok |-> FALSE, sizes |-> sizes]
         ELSE CopyInnerSizes(inner, k + 1, Put(sizes, result, sizes[inner[k]]), result)

TrackGet(d, ins, sv, sizes, mapped) ==
    LET array == ins.array
        result == ins.results[1]
        m == MarkSliceValue(d, array, sv, sizes)
    IN  IF ~m.ok THEN Tracked(FALSE, sv, sizes, mapped)
        ELSE IF contains_slice_element(type_of_value(d, result)) /\ Has(m.sizes, array)
             THEN LET inner == Append(m.sizes[array].inner, result)
                      pushed == Put(m.sizes, array, SizeRecord(m.sizes[array].size, inner))
                      c == CopyInnerSizes(inner, 1, pushed, result)
                  IN  Tracked(c.ok, m.slice_values, c.sizes, Put(mapped, array, result))
             ELSE Tracked(TRUE, m.slice_values, m.sizes, mapped)

TrackSet(d, ins, sv, sizes, mapped) ==
    LET array == ins.array
        value == ins.value
        result == ins.results[1]
        slice_value == contains_slice_element(type_of_value(d, value))
        m == MarkSliceValue(d, array, sv, sizes)
        v == IF m.ok /\ slice_value
             THEN compute_slice_sizes(d, value, m.sizes)
             ELSE [ok |-> m.ok, sizes |-> m.sizes]
    IN  IF ~v.ok \/ (slice_value /\ ~Has(v.sizes, array))
        THEN Tracked(FALSE, sv, sizes, mapped)
        ELSE LET sizes1 == IF slice_value
                           THEN Put(v.sizes, array,
                                    SizeRecord(v.sizes[array].size,
                                               Append(v.sizes[array].inner, value)))
                           ELSE v.sizes
                 mapped1 == IF slice_value THEN Put(mapped, value, result) ELSE mapped
             IN  IF Has(sizes1, array)
                 THEN Tracked(TRUE, m.slice_values, Put(sizes1, result, sizes1[array]),
                              Put(mapped1, array, result))
                 ELSE Tracked(TRUE, m.slice_values, sizes1, mapped1)

\* a variant in which a shrinking call lowers the size it hands to its result
TrackCallInstr_shrink_lowers(d, ins, sv, sizes, mapped) ==
    IF ins.func \in Growing /\ Has(sizes, SliceContents(ins))
    THEN LET slice_contents == SliceContents(ins)
             grown == SizeRecord(sizes[slice_contents].size + 1,
                                 sizes[slice_contents].inner)
         IN  Tracked(TRUE, sv,
                     Put(Put(sizes, slice_contents, grown), DesignatedResult(ins), grown),
                     Put(mapped, slice_contents, DesignatedResult(ins)))
    ELSE IF ins.func \in Shrinking /\ Has(sizes, SliceContents(ins))
    THEN LET slice_contents == SliceContents(ins)
             shrunk == SizeRecord(Max2(sizes[slice_contents].size, 1) - 1,
                                  sizes[slice_contents].inner)
         IN  Tracked(TRUE, sv,
                     Put(sizes, DesignatedResult(ins), shrunk),
                     Put(mapped, slice_contents, DesignatedResult(ins)))
    ELSE Tracked(TRUE, sv, sizes, mapped)

TrackCallInstr(d, ins, sv, sizes, mapped) ==
    IF ins.func \in Growing /\ Has(sizes, SliceContents(ins))
    THEN LET slice_contents == SliceContents(ins)
             grown == SizeRecord(sizes[slice_contents].size + 1,
                                 sizes[slice_contents].inner)
         IN  Tracked(TRUE, sv,
                     Put(Put(sizes, slice_contents, grown), DesignatedResult(ins), grown),
                     Put(mapped, slice_contents, DesignatedResult(ins)))
    ELSE IF ins.func \in Shrinking /\ Has(sizes, SliceContents(ins))
    THEN LET slice_contents == SliceContents(ins)
         IN  Tracked(TRUE, sv,
                     Put(sizes, DesignatedResult(ins), sizes[slice_contents]),
                     Put(mapped, slice_contents, DesignatedResult(ins)))
    ELSE Tracked(TRUE, sv, sizes, mapped)

----------------------------------------------------------------------------
(* The functions the pass is run on: a store of materialized values and    *)
(* the blocks over it.                                                     *)

\* the ids of the materialized values below
V == [c1 |-> 1, c2 |-> 2, T1 |-> 3, T3 |-> 4, A |-> 5, B |-> 6, D |-> 7,
      N |-> 8, P1 |-> 9, P2 |-> 10, H |-> 11, E |-> 12,
      cu |-> 13, W1 |-> 14, W2 |-> 15, U |-> 16]

BaseDfg ==
    << NumericConstant(1, "Field"),               \* c1
       NumericConstant(2, "Field"),               \* c2
       ArrayValue("SliceF", <<1>>),               \* T1 = [c1]
       ArrayValue("SliceF", <<1, 2, 1>>),         \* T3 = [c1, c2, c1]
       ArrayValue("SliceSF", <<3, 4>>),           \* A = [T1, T3]
       ArrayValue("SliceSF", <<3>>),              \* B = [T1]
       ArrayValue("SliceSSF", <<5, 6>>),          \* D = [A, B]
       ArrayValue("ArrF2", <<1, 2>>),             \* N = [c1, c2], a fixed array
       ArrayValue("SliceTup", <<1, 8>>),          \* P1 = [(c1, N)]
       ArrayValue("SliceTup", <<1, 8, 2, 8>>),    \* P2 = [(c1, N), (c2, N)]
       ArrayValue("SliceSTup", <<10, 9>>),        \* H = [P2, P1]
       ArrayValue("ArrSF1", <<4>>),               \* E = [T3], a fixed array of slices
       NumericConstant(1, "U8"),                  \* cu, an 8-bit constant
       ArrayValue("SliceU8", <<13>>),             \* W1 = [cu]
       ArrayValue("SliceU8", <<13, 13>>),         \* W2 = [cu, cu]
       ArrayValue("SliceSU8", <<14, 15>>) >>      \* U = [W1, W2]

\* a value of each element type, for the elements an intrinsic call pushes
SampleOf(t) == IF t = "SliceF" THEN V.T1 ELSE V.c1

\* the results of a slice intrinsic applied to a slice of type t
IntrinsicResultTypes(func, t) ==
    CASE func \in Growing -> <<"Field", t>>
      [] func = "SlicePopFront" -> ElementTypes(t) \o <<"Field", t>>
      [] OTHER -> <<"Field", t>> \o ElementTypes(t)

IntrinsicArguments(func, slice, t) ==
    LET elems == [k \in DOMAIN ElementTypes(t) |-> SampleOf(ElementTypes(t)[k])]
    IN  CASE func \in {"SlicePushBack", "SlicePushFront"} -> <<V.c1, slice>> \o elems
          [] func = "SliceInsert" -> <<V.c1, slice, V.c1>> \o elems
          [] func = "SliceRemove" -> <<V.c1, slice, V.c1>>
          [] OTHER -> <<V.c1, slice>>

\* a block under construction: its instructions and the types of their results,
\* which follow the materialized values in the store
EmptyBlock == [ins |-> <<>>, rt |-> <<>>]

StoreOf(b) == BaseDfg \o [k \in DOMAIN b.rt |-> InstructionResult(b.rt[k])]

TypeIn(b, id) ==
    IF id <= Len(BaseDfg) THEN BaseDfg[id].typ ELSE b.rt[id - Len(BaseDfg)]

AddInstr(b, ins, result_types) ==
    [ins |-> Append(b.ins,
                    [ins EXCEPT !.results =
                        [k \in DOMAIN result_types |-> Len(BaseDfg) + Len(b.rt) + k]]),
     rt |-> b.rt \o result_types]

\* the results of earlier instructions that carry an array or slice on
Designated(b) ==
    {b.ins[k].results[1] : k \in {j \in DOMAIN b.ins : b.ins[j].op \in {"ArrayGet", "ArraySet"}}}
    \cup {DesignatedResult(b.ins[k]) :
            k \in {j \in DOMAIN b.ins : b.ins[j].func \in SliceIntrinsics}}

Composite(b) == {r \in Designated(b) : TypeKind(TypeIn(b, r)) # "Numeric"}
SliceOperands(b) == {r \in Designated(b) : TypeIn(b, r) \in {"SliceF", "SliceSF"}}

Gets(b) ==
    UNION {{AddInstr(b, ArrayGet(a, V.c1), <<rt>>) :
                rt \in Range(ElementTypes(TypeIn(b, a)))} :
           a \in {V.A, V.D, V.H, V.N, V.E, V.U} \cup Composite(b)}

Sets(b) ==
    UNION {{AddInstr(b, ArraySet(a, V.c1, v), <<TypeIn(b, a)>>) :
                v \in {w \in {V.c1, V.T1, V.T3} :
                          TypeIn(b, w) \in Range(ElementTypes(TypeIn(b, a)))}} :
           a \in {V.A} \cup Composite(b)}

IntrinsicCalls(b, funcs, operands) ==
    {AddInstr(b, Call(f, IntrinsicArguments(f, s, TypeIn(b, s))),
              IntrinsicResultTypes(f, TypeIn(b, s))) :
        f \in funcs, s \in operands}

Inert(b) ==
    { AddInstr(b, Binary(V.c1, V.c2), <<"Field">>),
      AddInstr(b, Call("Function", <<V.A>>), <<"Field">>),
      AddInstr(b, Call("ToBits", <<V.c1>>), <<"Field">>) }

\* the intrinsics of the chains below, and those of the general alphabet
ChainIntrinsics == {"SlicePushBack", "SlicePopBack", "SlicePopFront"}
BlockIntrinsics == SliceIntrinsics \ ChainIntrinsics

\* every instruction of the alphabet appended to b
Extend(b) ==
    Gets(b) \cup Sets(b)
    \cup IntrinsicCalls(b, BlockIntrinsics, {V.T3} \cup SliceOperands(b))
    \cup Inert(b)

RECURSIVE BlocksOfLen(_)
BlocksOfLen(n) ==
    IF n = 0 THEN {EmptyBlock} ELSE UNION {Extend(b) : b \in BlocksOfLen(n - 1)}

\* a Read followed by n slice intrinsic calls, each applied to the result of
\* the Read or of an earlier call
RECURSIVE ChainsOfLen(_)
ChainsOfLen(n) ==
    IF n = 0 THEN Gets(EmptyBlock)
    ELSE UNION {IntrinsicCalls(b, ChainIntrinsics, SliceOperands(b)) :
                    b \in ChainsOfLen(n - 1)}

Blocks(max_instrs, max_chain) ==
    UNION {BlocksOfLen(n) : n \in 0..max_instrs}
    \cup UNION {ChainsOfLen(n) : n \in 0..max_chain}

----------------------------------------------------------------------------
(* The register machine is idle while the pass runs *)

VmIdle == [prog |-> "none", pc |-> 0, regs |-> <<0, 0, 0>>, bits |-> 0,
           status |-> "idle", divisions |-> 0, input |-> <<0, 0>>]

----------------------------------------------------------------------------
(* process_block *)

Init ==
    /\ \E b \in Blocks(MaxInstrs, MaxChain) :
          /\ dfg = StoreOf(b)
          /\ instructions = b.ins
    /\ terminator = <<V.A>>
    /\ pc = "track"
    /\ i = 1
    /\ slice_values = <<>>
    /\ slice_sizes = EmptyMap
    /\ mapped_slice_values = EmptyMap
    /\ nested_slice_max = 0
    /\ values = EmptyMap
    /\ emitted = <<>>
    /\ new_terminator = <<>>
    /\ history = <<>>
    /\ rewrites = <<>>
    /\ vm = VmIdle

Panic ==
    /\ pc' = "panic"
    /\ UNCHANGED <<dfg, instructions, terminator, i, slice_values, slice_sizes,
                   mapped_slice_values, nested_slice_max, values, emitted,
                   new_terminator, history, rewrites, vm>>

\* the end of one iteration of the tracking loop
TrackStep(t) ==
    IF t.ok
    THEN /\ slice_values' = t.slice_values
         /\ slice_sizes' = t.slice_sizes
         /\ mapped_slice_values' = t.mapped
         /\ history' = Append(history, slice_sizes)
         /\ i' = i + 1
         /\ UNCHANGED <<dfg, instructions, terminator, pc, nested_slice_max, values,
                        emitted, new_terminator, rewrites, vm>>
    ELSE Panic

Tracking(op) == pc = "track" /\ i <= Len(instructions) /\ instructions[i].op = op

\* lines 67-93
TrackArrayGet ==
    /\ Tracking("ArrayGet")
    /\ TrackStep(TrackGet(dfg, instructions[i], slice_values, slice_sizes,
                          mapped_slice_values))

\* lines 94-131
TrackArraySet ==
    /\ Tracking("ArraySet")
    /\ TrackStep(TrackSet(dfg, instructions[i], slice_values, slice_sizes,
                          mapped_slice_values))

\* lines 132-181
TrackCall ==
    /\ Tracking("Call")
    /\ TrackStep(TrackCallInstr(dfg, instructions[i], slice_values, slice_sizes,
                                mapped_slice_values))

\* line 183
TrackOther ==
    /\ pc = "track" /\ i <= Len(instructions)
    /\ instructions[i].op \notin {"ArrayGet", "ArraySet", "Call"}
    /\ TrackStep(Tracked(TRUE, slice_values, slice_sizes, mapped_slice_values))

\* lines 187-202: the largest nested depth over the slice values
RECURSIVE NestedSliceMax(_, _, _, _, _)
NestedSliceMax(sv, k, mapped, sizes, max) ==
    IF k > Len(sv) THEN [ok |-> TRUE, max |-> max]
    ELSE LET nested_depth ==
                 find_max_nested_depth(follow_mapped_slice_values(sv[k], mapped), sizes)
         IN  IF ~nested_depth.ok THEN [ok |-> FALSE, max |-> 0]
             ELSE NestedSliceMax(sv, k + 1, mapped, sizes, Max2(max, nested_depth.max))

FetchNestedSliceMax ==
    /\ pc = "track" /\ i > Len(instructions)
    /\ LET m == NestedSliceMax(slice_values, 1, mapped_slice_values, slice_sizes, 0)
       IN  IF m.ok
           THEN /\ nested_slice_max' = m.max
                /\ pc' = "rewrite"
                /\ i' = 1
                /\ UNCHANGED <<dfg, instructions, terminator, slice_values, slice_sizes,
                               mapped_slice_values, values, emitted, new_terminator,
                               history, rewrites, vm>>
           ELSE Panic

----------------------------------------------------------------------------
(* The rewriting loop of process_block (lines 204-287) *)

Contains(sv, id) == \E k \in DOMAIN sv : sv[k] = id

\* lines 209-222 and 248-261: the padded replacement of the array of a Read or Write
PaddedArray(d, vals, array, mapped, sizes) ==
    LET mapped_slice_value == follow_mapped_slice_values(array, mapped)
        nested_max == find_max_nested_depth(mapped_slice_value, sizes)
    IN  IF ~nested_max.ok THEN [ok |-> FALSE, dfg |-> d, id |-> 0, bound |-> 0]
        ELSE LET a == attach_slice_dummies(d, vals, type_of_value(d, array), array,
                                           nested_max.max, TRUE)
             IN  [ok |-> a.ok, dfg |-> a.dfg, id |-> a.id, bound |-> nested_max.max]

\* FunctionInserter::push_instruction: the instruction with its operands mapped
push_instruction(vals, ins) == map_instruction(vals, ins)

\* lines 228-233: the Read over the new array
NewArrayGet(vals, ins, new_array) ==
    [map_instruction(vals, ins) EXCEPT !.array = resolve(vals, new_array),
                                       !.index = resolve(vals, @)]

\* lines 266-271: the Write over the new array
\* a variant that stores the padded array in place of the written value too
NewArraySet_value_lost(vals, ins, new_array) ==
    [map_instruction(vals, ins) EXCEPT !.array = resolve(vals, new_array),
                                       !.value = resolve(vals, new_array)]

NewArraySet(vals, ins, new_array) ==
    [map_instruction(vals, ins) EXCEPT !.array = resolve(vals, new_array)]

Rewriting == pc = "rewrite" /\ i <= Len(instructions)

Emit(ins) ==
    /\ emitted' = Append(emitted, ins)
    /\ i' = i + 1
    /\ UNCHANGED <<instructions, terminator, pc, slice_values, slice_sizes,
                   mapped_slice_values, nested_slice_max, values, new_terminator,
                   history, vm>>

\* the replacement of the array of instruction i by a padded one
Replaced(p) ==
    [pos |-> i, array |-> instructions[i].array, new_array |-> p.id,
     bound |-> p.bound, first_new |-> Len(dfg) + 1, last_new |-> Len(p.dfg)]

\* lines 206-243
RewriteArrayGet ==
    /\ Rewriting /\ instructions[i].op = "ArrayGet"
    /\ IF Contains(slice_values, instructions[i].array)
       THEN LET p == PaddedArray(dfg, values, instructions[i].array,
                                 mapped_slice_values, slice_sizes)
            IN  IF p.ok
                THEN /\ dfg' = p.dfg
                     /\ rewrites' = Append(rewrites, Replaced(p))
                     /\ Emit(NewArrayGet(values, instructions[i], p.id))
                ELSE Panic
       ELSE /\ Emit(push_instruction(values, instructions[i]))
            /\ UNCHANGED <<dfg, rewrites>>

\* lines 244-281
RewriteArraySet ==
    /\ Rewriting /\ instructions[i].op = "ArraySet"
    /\ IF Contains(slice_values, instructions[i].array)
       THEN LET p == PaddedArray(dfg, values, instructions[i].array,
                                 mapped_slice_values, slice_sizes)
            IN  IF p.ok
                THEN /\ dfg' = p.dfg
                     /\ rewrites' = Append(rewrites, Replaced(p))
                     /\ Emit(NewArraySet(values, instructions[i], p.id))
                ELSE Panic
       ELSE /\ Emit(push_instruction(values, instructions[i]))
            /\ UNCHANGED <<dfg, rewrites>>

\* lines 283-285
RewriteOther ==
    /\ Rewriting /\ instructions[i].op \notin {"ArrayGet", "ArraySet"}
    /\ Emit(push_instruction(values, instructions[i]))
    /\ UNCHANGED <<dfg, rewrites>>

\* line 289: FunctionInserter::map_terminator_in_place
MapTerminator ==
    /\ pc = "rewrite" /\ i > Len(instructions)
    /\ new_terminator' = [k \in DOMAIN terminator |-> resolve(values, terminator[k])]
    /\ pc' = "done"
    /\ UNCHANGED <<dfg, instructions, terminator, i, slice_values, slice_sizes,
                   mapped_slice_values, nested_slice_max, values, emitted, history,
                   rewrites, vm>>

Next ==
    \/ TrackArrayGet
    \/ TrackArraySet
    \/ TrackCall
    \/ TrackOther
    \/ FetchNestedSliceMax
    \/ RewriteArrayGet
    \/ RewriteArraySet
    \/ RewriteOther
    \/ MapTerminator

Spec == Init /\ [][Next]_vars

----------------------------------------------------------------------------
(* The directives of brillig_directive.rs and the register machine that    *)
(* runs them.  Locations and register indices are zero-based as in the     *)
(* source; the opcode at location l is program[l + 1].                     *)

\* the field has at least this many elements
FieldBound == 13
\* the largest bit size of the integer operations, swept in full
MaxBits == 3

IsPrime(n) == n > 1 /\ \A k \in 2..(n - 1) : n % k # 0
\* the modulus of the field: the smallest prime from FieldBound on
FieldModulus == CHOOSE q \in FieldBound..(2 * FieldBound) :
                    IsPrime(q) /\ \A r \in FieldBound..(q - 1) : ~IsPrime(r)

Opcode(op, kind, lhs, rhs, destination, location, value, bit_size) ==
    [op |-> op, kind |-> kind, lhs |-> lhs, rhs |-> rhs, destination |-> destination,
     location |-> location, value |-> value, bit_size |-> bit_size]

JumpIfNot(condition, location) == Opcode("JumpIfNot", "", condition, 0, 0, location, 0, 0)
Const(destination, value) == Opcode("Const", "", 0, 0, destination, 0, value, 0)
BinaryFieldOp(kind, lhs, rhs, destination) ==
    Opcode("BinaryFieldOp", kind, lhs, rhs, destination, 0, 0, 0)
BinaryIntOp(kind, lhs, rhs, destination, bit_size) ==
    Opcode("BinaryIntOp", kind, lhs, rhs, destination, 0, 0, bit_size)
Mov(destination, source) == Opcode("Mov", "", source, 0, destination, 0, 0, 0)
Stop == Opcode("Stop", "", 0, 0, 0, 0, 0, 0)

\* line 19
stop_location == 3

\* lines 8-39
\* a variant whose jump for a zero input lands on the division's setup
directive_invert_jump_short ==
    << JumpIfNot(0, 1),
       Const(1, 1),
       BinaryFieldOp("Div", 1, 0, 0),
       Stop >>

directive_invert ==
    << JumpIfNot(0, stop_location),
       Const(1, 1),
       BinaryFieldOp("Div", 1, 0, 0),
       Stop >>

\* lines 50-89
\* a variant that subtracts the dividend from the product
directive_quotient_sub_swapped(bit_size) ==
    << BinaryIntOp("UnsignedDiv", 0, 1, 2, bit_size),
       BinaryIntOp("Mul", 2, 1, 1, bit_size),
       BinaryIntOp("Sub", 1, 0, 1, bit_size),
       Mov(0, 2),
       Stop >>

directive_quotient(bit_size) ==
    << BinaryIntOp("UnsignedDiv", 0, 1, 2, bit_size),
       BinaryIntOp("Mul", 2, 1, 1, bit_size),
       BinaryIntOp("Sub", 0, 1, 1, bit_size),
       Mov(0, 2),
       Stop >>

\* the program a machine state runs
ProgramOf(m) ==
    IF m.prog = "invert" THEN directive_invert ELSE directive_quotient(m.bits)

RECURSIVE Pow2(_)
Pow2(n) == IF n = 0 THEN 1 ELSE 2 * Pow2(n - 1)

\* the field inverse of a nonzero element
FieldInverse(x) == CHOOSE y \in 1..(FieldModulus - 1) : (x * y) % FieldModulus = 1

\* BinaryFieldOp::Div: lhs times the inverse of rhs; the inverse of zero is zero
FieldDiv(a, b) == IF b = 0 THEN 0 ELSE (a * FieldInverse(b)) % FieldModulus

\* BinaryIntOp at a bit size: the operands and the result are taken modulo 2^bit_size
IntOp(kind, a, b, bit_size) ==
    LET m == Pow2(bit_size)
    IN  CASE kind = "UnsignedDiv" -> ((a % m) \div (b % m)) % m
          [] kind = "Mul" -> ((a % m) * (b % m)) % m
          [] kind = "Sub" -> (m + (a % m) - (b % m)) % m
          [] OTHER -> 0

Reg(m, r) == m.regs[r + 1]
SetReg(m, r, v) == [m EXCEPT !.regs[r + 1] = v, !.pc = @ + 1]

Running(op) ==
    /\ vm.status = "running"
    /\ vm.pc < Len(ProgramOf(vm))
    /\ ProgramOf(vm)[vm.pc + 1].op = op

Current == ProgramOf(vm)[vm.pc + 1]

VmJumpIfNot ==
    /\ Running("JumpIfNot")
    /\ vm' = IF Reg(vm, Current.lhs) = 0
             THEN [vm EXCEPT !.pc = Current.location]
             ELSE [vm EXCEPT !.pc = @ + 1]
    /\ UNCHANGED passVars

VmConst ==
    /\ Running("Const")
    /\ vm' = SetReg(vm, Current.destination, Current.value)
    /\ UNCHANGED passVars

VmBinaryFieldOp ==
    /\ Running("BinaryFieldOp")
    /\ vm' = [SetReg(vm, Current.destination,
                     FieldDiv(Reg(vm, Current.lhs), Reg(vm, Current.rhs)))
                EXCEPT !.divisions = @ + 1]
    /\ UNCHANGED passVars

\* an integer division by zero stops the machine with a failure
VmBinaryIntOp ==
    /\ Running("BinaryIntOp")
    /\ vm' = IF Current.kind = "UnsignedDiv"
                /\ Reg(vm, Current.rhs) % Pow2(Current.bit_size) = 0
             THEN [vm EXCEPT !.status = "failure"]
             ELSE SetReg(vm, Current.destination,
                         IntOp(Current.kind, Reg(vm, Current.lhs), Reg(vm, Current.rhs),
                               Current.bit_size))
    /\ UNCHANGED passVars

VmMov ==
    /\ Running("Mov")
    /\ vm' = SetReg(vm, Current.destination, Reg(vm, Current.lhs))
    /\ UNCHANGED passVars

VmStop ==
    /\ Running("Stop")
    /\ vm' = [vm EXCEPT !.status = "stopped"]
    /\ UNCHANGED passVars

\* the machine at the start of a directive; input holds the inputs given
VmStart(prog, bits, r0, r1) ==
    [prog |-> prog, pc |-> 0, regs |-> <<r0, r1, 0>>, bits |-> bits,
     status |-> "running", divisions |-> 0, input |-> <<r0, r1>>]

\* the example of the quotient directive at 8 bits
ExampleInputs == {<<17, 5>>, <<0, 5>>, <<255, 1>>, <<255, 16>>, <<200, 255>>}

InitVm ==
    /\ dfg = BaseDfg
    /\ instructions = <<>>
    /\ terminator = <<>>
    /\ pc = "done"
    /\ i = 1
    /\ slice_values = <<>>
    /\ slice_sizes = EmptyMap
    /\ mapped_slice_values = EmptyMap
    /\ nested_slice_max = 0
    /\ values = EmptyMap
    /\ emitted = <<>>
    /\ new_terminator = <<>>
    /\ history = <<>>
    /\ rewrites = <<>>
    /\ \/ \E x \in 0..(FieldModulus - 1) : vm = VmStart("invert", 0, x, 0)
       \/ \E w \in 1..MaxBits : \E a, b \in 0..(Pow2(w) - 1) :
             vm = VmStart("quotient", w, a, b)
       \/ \E e \in ExampleInputs : vm = VmStart("quotient", 8, e[1], e[2])

NextVm ==
    \/ VmJumpIfNot
    \/ VmConst
    \/ VmBinaryFieldOp
    \/ VmBinaryIntOp
    \/ VmMov
    \/ VmStop

SpecVm == InitVm /\ [][NextVm]_vars

----------------------------------------------------------------------------
(* Properties of the pass *)

TrackingDone == (pc = "track" /\ i > Len(instructions)) \/ pc \in {"rewrite", "done"}

\* the value ids an instruction references
Operands(ins) ==
    ({ins.array, ins.index, ins.value} \cup Range(ins.arguments)) \ {0}

\* a real slice, as opposed to a numeric, a fixed array or an instruction result
RealSlice(d, id) == d[id].kind = "Array" /\ TypeKind(d[id].typ) = "Slice"

\* every element the original holds at an in-bounds index path is found at the
\* same path of the padded value
RECURSIVE InBoundsSame(_, _, _)
InBoundsSame(d, original, padded) ==
    IF RealSlice(d, original)
    THEN /\ d[padded].kind = "Array"
         /\ Len(d[padded].array) >= Len(d[original].array)
         /\ \A k \in DOMAIN d[original].array :
               InBoundsSame(d, d[original].array[k], d[padded].array[k])
    ELSE padded = original

\* C1: for every Read or Write the rewrite replaced, every element at an index
\* path that is in bounds at every level of the original array is the same in
\* the padded replacement: no real element of an inner slice is dropped.
C1_InBoundsReadEquivalence ==
    \A k \in DOMAIN rewrites :
        InBoundsSame(dfg, rewrites[k].array, rewrites[k].new_array)

\* C2: once the tracker has processed every instruction of the block, the ids
\* listed as inner slices of one size record all have the same maxLength.
C2_SiblingUniformity ==
    TrackingDone =>
        \A id \in DOMAIN slice_sizes :
            \A x, y \in Range(slice_sizes[id].inner) :
                (Has(slice_sizes, x) /\ Has(slice_sizes, y))
                    => slice_sizes[x].size = slice_sizes[y].size

\* C9: resolving an id with no entry in the supersession map gives the id itself,
\* resolving is idempotent and ends at an id with no entry, and the two ends of
\* every entry resolve to the same id.
C9_SupersessionResolution ==
    LET Resolved(id) == follow_mapped_slice_values(id, mapped_slice_values)
    IN  /\ \A id \in DOMAIN dfg :
              /\ ~Has(mapped_slice_values, id) => Resolved(id) = id
              /\ ~Has(mapped_slice_values, Resolved(id))
              /\ Resolved(Resolved(id)) = Resolved(id)
        /\ \A x \in DOMAIN mapped_slice_values :
              Resolved(x) = Resolved(mapped_slice_values[x])

\* a lineage of three ids: x is superseded by an id that is superseded in turn
C9_Witness ==
    /\ TrackingDone
    /\ \E x \in DOMAIN mapped_slice_values :
          /\ Has(mapped_slice_values, mapped_slice_values[x])
          /\ follow_mapped_slice_values(x, mapped_slice_values)
                # mapped_slice_values[x]

\* C10: once the rewrite has replaced array A in a Read or Write, no later
\* instruction of the block that referenced A, nor the terminator, is emitted
\* referencing the original A.
C10_MonotonicRemapping ==
    \A r \in DOMAIN rewrites :
        /\ \A k \in DOMAIN emitted :
              (k > rewrites[r].pos /\ rewrites[r].array \in Operands(instructions[k]))
                  => rewrites[r].array \notin Operands(emitted[k])
        /\ (pc = "done" /\ rewrites[r].array \in Range(terminator))
              => rewrites[r].array \notin Range(new_terminator)

\* the size records after instruction k was tracked
SizesAfter(k) == IF k < Len(history) THEN history[k + 1] ELSE slice_sizes

IsSliceCall(k) == instructions[k].op = "Call" /\ instructions[k].func \in SliceIntrinsics
First(S) == CHOOSE k \in S : \A j \in S : k <= j
Last(S) == CHOOSE k \in S : \A j \in S : j <= k
Prev(S, k) == Last({j \in S : j < k})

\* the calls at the positions S, each applied to the designated result of the
\* one before it, the first applied to a slice that has a size record
TrackedChain(S) ==
    /\ S # {}
    /\ \A k \in S :
          /\ IsSliceCall(k)
          /\ k # First(S) =>
                SliceContents(instructions[k]) = DesignatedResult(instructions[Prev(S, k)])
    /\ Has(history[First(S)], SliceContents(instructions[First(S)]))

ChainStart(S) == history[First(S)][SliceContents(instructions[First(S)])].size
ChainEnd(S) == SizesAfter(Last(S))[DesignatedResult(instructions[Last(S)])].size
GrowingCalls(S) == Cardinality({k \in S : instructions[k].func \in Growing})

\* no result of the chain is grown by a call that is not of the chain
Unshared(S) ==
    \A k \in (First(S)..Last(S)) \ S :
        (IsSliceCall(k) /\ instructions[k].func \in Growing)
            => SliceContents(instructions[k])
                 \notin {DesignatedResult(instructions[j]) : j \in S}

RECURSIVE IsDummy(_, _)
IsDummy(d, id) ==
    \/ d[id].kind = "NumericConstant" /\ d[id].num = 0
    \/ d[id].kind = "Array" /\ \A k \in DOMAIN d[id].array : IsDummy(d, d[id].array[k])

\* a materialized slice whose elements are slices of numerics and fixed arrays
SliceOfSlices(d, id) ==
    /\ RealSlice(d, id)
    /\ \A k \in DOMAIN ElementTypes(d[id].typ) :
          LET t == ElementTypes(d[id].typ)[k]
          IN  /\ TypeKind(t) = "Slice"
              /\ \A j \in DOMAIN ElementTypes(t) :
                    ~contains_slice_element(ElementTypes(t)[j])

\* the real length of a materialized slice
RealLength(d, id) == Len(d[id].array) \div element_size(d[id].typ)

\* the largest real length among the inner slices of a slice of slices
LongestInner(d, id) ==
    CHOOSE n \in {RealLength(d, d[id].array[k]) : k \in DOMAIN d[id].array} :
        \A k \in DOMAIN d[id].array : RealLength(d, d[id].array[k]) <= n

\* the inner slices of the padded value of a rewritten Read hold width elements
\* each: the original elements below the real length, dummies from it on
PaddedTo(d, original, padded, width) ==
    /\ Len(d[padded].array) = Len(d[original].array)
    /\ \A k \in DOMAIN d[original].array :
          LET inner == d[d[original].array[k]]
              inner_padded == d[d[padded].array[k]]
          IN  /\ Len(inner_padded.array) = width * element_size(inner.typ)
              /\ \A j \in DOMAIN inner_padded.array :
                    IF j <= Len(inner.array)
                    THEN inner_padded.array[j] = inner.array[j]
                    ELSE IsDummy(d, inner_padded.array[j])

ReadOfSliceOfSlices(r) ==
    /\ instructions[rewrites[r].pos].op = "ArrayGet"
    /\ SliceOfSlices(dfg, rewrites[r].array)

OnlyReadsOf(array) ==
    \A k \in DOMAIN instructions :
        instructions[k].op = "ArrayGet" /\ instructions[k].array = array

C5_PadderWidth ==
    \A r \in DOMAIN rewrites :
        \A x \in rewrites[r].first_new..rewrites[r].last_new :
            (dfg[x].kind = "Array" /\ TypeKind(dfg[x].typ) = "Slice") =>
                IF x = rewrites[r].new_array
                THEN /\ Len(dfg[x].array) = Len(dfg[rewrites[r].array].array)
                     /\ Len(dfg[x].array) % element_size(dfg[x].typ) = 0
                ELSE Len(dfg[x].array) = rewrites[r].bound * element_size(dfg[x].typ)

\* inner slices made from a shorter source, from a full source and from no source
C5_Witness ==
    \E r \in DOMAIN rewrites :
        LET made == {x \in rewrites[r].first_new..rewrites[r].last_new :
                        /\ dfg[x].kind = "Array" /\ TypeKind(dfg[x].typ) = "Slice"
                        /\ x # rewrites[r].new_array}
        IN  /\ rewrites[r].bound >= 2
            /\ \E x \in made : element_size(dfg[x].typ) = 2
                                /\ Len(dfg[x].array) = 2 * rewrites[r].bound
                                /\ IsDummy(dfg, dfg[x].array[Len(dfg[x].array)])
                                /\ ~IsDummy(dfg, dfg[x].array[1])
            /\ \E x \in made : ~IsDummy(dfg, x) /\ \A k \in DOMAIN dfg[x].array :
                                   ~IsDummy(dfg, dfg[x].array[k])

\* the store the block started from: the materialized values and the results
InitialStoreSize ==
    Len(BaseDfg) + Cardinality(UNION {Range(instructions[k].results) :
                                        k \in DOMAIN instructions})

RewrittenAt(k) == \E r \in DOMAIN rewrites : rewrites[r].pos = k

\* C8: the rewrite emits one instruction per instruction of the block, in order;
\* an instruction that is not a replaced Read or Write is emitted unchanged, a
\* replaced one differs in its array alone; the terminator is kept; a block with
\* no Read or Write on a materialized array whose type contains a slice is
\* emitted unchanged and no value is made.
C8_Frame ==
    /\ pc = "rewrite" => Len(emitted) = i - 1
    /\ \A k \in DOMAIN emitted :
          /\ RewrittenAt(k) =>
                /\ instructions[k].op \in {"ArrayGet", "ArraySet"}
                /\ Contains(slice_values, instructions[k].array)
                /\ [emitted[k] EXCEPT !.array = instructions[k].array] = instructions[k]
          /\ ~RewrittenAt(k) => emitted[k] = instructions[k]
    /\ pc = "done" =>
          /\ Len(emitted) = Len(instructions)
          /\ new_terminator = terminator
          /\ (\A k \in DOMAIN instructions :
                 ~(/\ instructions[k].op \in {"ArrayGet", "ArraySet"}
                   /\ dfg[instructions[k].array].kind = "Array"
                   /\ contains_slice_element(dfg[instructions[k].array].typ)))
                => /\ emitted = instructions
                   /\ Len(dfg) = InitialStoreSize
                   /\ rewrites = <<>>

\* a block with a replaced Write followed by an instruction left alone
C8_Witness ==
    /\ pc = "done" /\ Len(instructions) = 2
    /\ RewrittenAt(1) /\ instructions[1].op = "ArraySet"
    /\ ~RewrittenAt(2) /\ emitted[2] = instructions[2]
    /\ emitted[1] # instructions[1]

\* a block with a Read of a fixed array of numerics: nothing changes
C8_WitnessUnchanged ==
    /\ pc = "done" /\ Len(instructions) = 2
    /\ instructions[1].op = "ArrayGet" /\ instructions[1].array = V.N
    /\ emitted = instructions /\ Len(dfg) = InitialStoreSize

----------------------------------------------------------------------------
(* Properties of the directives *)

\* C6: the invert directive never fails; it stops only at the Stop opcode, with
\* register 0 holding 0 for input 0 and the field inverse of the input
\* otherwise; for input 0 the jump goes to the Stop opcode and no division runs.
C6_InvertDirective ==
    vm.prog = "invert" =>
        LET x == vm.input[1]
        IN  /\ vm.status \in {"running", "stopped"}
            /\ vm.pc \in 0..stop_location
            /\ vm.status = "running" => ENABLED NextVm
            /\ vm.status = "stopped" =>
                  /\ ProgramOf(vm)[vm.pc + 1].op = "Stop"
                  /\ x = 0 => Reg(vm, 0) = 0
                  /\ x # 0 => (Reg(vm, 0) * x) % FieldModulus = 1
            /\ x = 0 => (vm.divisions = 0 /\ vm.pc \in {0, stop_location})

C6_Witness ==
    /\ vm.prog = "invert" /\ vm.status = "stopped"
    /\ vm.input[1] > 1 /\ Reg(vm, 0) # vm.input[1]
    /\ vm.divisions = 1

\* C7: for a nonzero divisor the quotient directive never fails and stops at the
\* Stop opcode with register 0 = a div b and register 1 = a - (a div b) * b =
\* a mod b, at every bit size.
C7_QuotientDirective ==
    (vm.prog = "quotient" /\ vm.input[2] # 0) =>
        LET a == vm.input[1]
            b == vm.input[2]
        IN  /\ vm.status \in {"running", "stopped"}
            /\ vm.status = "running" => ENABLED NextVm
            /\ vm.status = "stopped" =>
                  /\ ProgramOf(vm)[vm.pc + 1].op = "Stop"
                  /\ Reg(vm, 0) = a \div b
                  /\ Reg(vm, 1) = a - (a \div b) * b
                  /\ Reg(vm, 1) = a % b

C7_Witness ==
    /\ vm.prog = "quotient" /\ vm.status = "stopped" /\ vm.bits = 8
    /\ vm.input = <<17, 5>> /\ Reg(vm, 0) = 3 /\ Reg(vm, 1) = 2

----------------------------------------------------------------------------
(* Properties of the size records *)

\* C11: the pass never looks up a size record that is missing: it does not
\* abort, and once the block is tracked every slice value resolves to an id
\* that has a size record and every id listed as an inner slice of a size
\* record has a size record of its own.
C11_NoMissingSizeRecord ==
    /\ pc # "panic"
    /\ TrackingDone =>
          /\ \A k \in DOMAIN slice_values :
                Has(slice_sizes,
                    follow_mapped_slice_values(slice_values[k], mapped_slice_values))
          /\ \A id \in DOMAIN slice_sizes :
                \A x \in Range(slice_sizes[id].inner) : Has(slice_sizes, x)

\* C12 helper: the records of before are kept by after, no smaller and with
\* every inner id they listed
RecordsKept(before, after) ==
    \A id \in DOMAIN before :
        /\ Has(after, id)
        /\ after[id].size >= before[id].size
        /\ Range(before[id].inner) \subseteq Range(after[id].inner)

\* C12: while the block is tracked, an id that has a size record keeps it from
\* one instruction to the next, with a maxLength that is no smaller and with
\* every inner id already listed.
C12_BoundsNeverDecrease ==
    \A k \in DOMAIN history : RecordsKept(history[k], SizesAfter(k))

\* the ids and the lengths of the size-record maps the evaluator is run on
MaxIds == 3
MaxSize == 2

\* the ids of S in increasing order
RECURSIVE Ascending(_)
Ascending(S) ==
    IF S = {} THEN <<>>
    ELSE LET least == CHOOSE x \in S : \A y \in S : x <= y
         IN  <<least>> \o Ascending(S \ {least})

\* the size-record maps over the ids 1..max_ids with lengths up to max_size in
\* which an inner list holds larger ids only: acyclic and closed
SizeMaps(max_ids, max_size) ==
    {[id \in 1..max_ids |-> SizeRecord(len[id], Ascending(inner[id]))] :
        len \in [1..max_ids -> 0..max_size],
        inner \in {f \in [1..max_ids -> SUBSET (1..max_ids)] :
                      \A id \in 1..max_ids : \A x \in f[id] : x > id}}

\* the evaluator alone: the tracker has left the map sizes and the slice value 1
InitDepth ==
    /\ dfg = <<>>
    /\ instructions = <<>>
    /\ terminator = <<>>
    /\ pc = "track"
    /\ i = 1
    /\ slice_values = <<1>>
    /\ \E sizes \in SizeMaps(MaxIds, MaxSize) : slice_sizes = sizes
    /\ mapped_slice_values = EmptyMap
    /\ nested_slice_max = 0
    /\ values = EmptyMap
    /\ emitted = <<>>
    /\ new_terminator = <<>>
    /\ history = <<>>
    /\ rewrites = <<>>
    /\ vm = VmIdle

NextDepth == FetchNestedSliceMax

SpecDepth == InitDepth /\ [][NextDepth]_vars

\* the ids reachable from the ids of S through the inner lists, S included
RECURSIVE ReachFrom(_, _)
ReachFrom(S, sizes) ==
    LET T == S \cup UNION {Range(sizes[x].inner) : x \in S \cap DOMAIN sizes}
    IN  IF T = S THEN S ELSE ReachFrom(T, sizes)

\* every id listed as an inner slice has a record
Closed(sizes) ==
    \A id \in DOMAIN sizes : Range(sizes[id].inner) \subseteq DOMAIN sizes

\* no id is reachable from its own inner list
Acyclic(sizes) ==
    \A id \in DOMAIN sizes : id \notin ReachFrom(Range(sizes[id].inner), sizes)

\* the largest maxLength among the records of the ids of S
LargestOf(S, sizes) ==
    CHOOSE m \in {sizes[x].size : x \in S} : \A x \in S : sizes[x].size <= m

\* C13: over a size-record map that is acyclic and closed under inner lists,
\* the nested depth of an id is the largest maxLength among the records of the
\* id and of every id reachable from it through the inner lists.
C13_NestedDepthIsLargestReachable ==
    (Closed(slice_sizes) /\ Acyclic(slice_sizes)) =>
        \A id \in DOMAIN slice_sizes :
            find_max_nested_depth(id, slice_sizes)
                = [ok |-> TRUE,
                   max |-> LargestOf(ReachFrom({id}, slice_sizes), slice_sizes)]

\* the evaluator has run on a record whose largest reachable maxLength is
\* larger than its own and than those of its inner slices: two inner lists away
C13_Witness ==
    /\ Closed(slice_sizes) /\ Acyclic(slice_sizes)
    /\ pc = "rewrite" /\ slice_values = <<1>>
    /\ nested_slice_max = find_max_nested_depth(1, slice_sizes).max
    /\ slice_sizes[1].inner # <<>>
    /\ slice_sizes[1].size < nested_slice_max
    /\ \A x \in Range(slice_sizes[1].inner) : slice_sizes[x].size < nested_slice_max

----------------------------------------------------------------------------
(* Properties of the numeric dummies *)

\* the element type of slot j of an array or slice of type t
SlotType(t, j) == ElementTypes(t)[((j - 1) % element_size(t)) + 1]

\* the arrays and slices the padder made for the replaced instruction r
MadeBy(r) ==
    {x \in rewrites[r].first_new..rewrites[r].last_new : dfg[x].kind = "Array"}

\* C14: in every array or slice the padder makes, a slot of a numeric type
\* holds a value of that numeric type: the source element where there is one,
\* a zero constant of the slot's type where there is none.
C14_NumericDummyTyping ==
    \A r \in DOMAIN rewrites :
        \A x \in MadeBy(r) :
            \A j \in DOMAIN dfg[x].array :
                TypeKind(SlotType(dfg[x].typ, j)) = "Numeric" =>
                    dfg[dfg[x].array[j]].typ = SlotType(dfg[x].typ, j)

====
